---- MODULE Spec2Model ----
(***************************************************************************)
(* Leader rotation scheduler and recurring-session expander of the swim    *)
(* team calendar (server/storage.ts and the DatabaseStorage variant).      *)
(*                                                                         *)
(* Dates.  A JavaScript Date built from "YYYY-MM-DD" is UTC midnight; the  *)
(* model keeps a Date as the number of whole days since 1970-01-01 and a   *)
(* date string as the triple <<year, month, day>>.  The process time zone  *)
(* is UTC, so the local-time setters (setDate, setMonth, setFullYear) and  *)
(* the UTC formatter toISOString agree on the calendar day.                *)
(***************************************************************************)
EXTENDS Integers, Sequences, FiniteSets, TLC

VARIABLES storageImpl, leaderSchedules, currentLeaderScheduleId, swimmers, callLog,
          trainingSessions, currentSessionId, now, invocations, loop

vars == <<storageImpl, leaderSchedules, currentLeaderScheduleId, swimmers, callLog,
          trainingSessions, currentSessionId, now, invocations, loop>>

\* JavaScript null / undefined
Null == "null"

(***************************************************************************)
(* Bounds of the model                                                     *)
(***************************************************************************)
\* number of generate / setFromDate calls in one behaviour
MaxCalls == 3

(***************************************************************************)
(* Calendar arithmetic of the JavaScript Date object                       *)
(***************************************************************************)
\* Date.UTC(y, m, d) / 86400000: days since the epoch of a civil date
DaysFromCivil(y, m, d) ==
  LET yy  == IF m <= 2 THEN y - 1 ELSE y
      era == yy \div 400
      yoe == yy - era * 400
      mp  == IF m > 2 THEN m - 3 ELSE m + 9
      doy == (153 * mp + 2) \div 5 + d - 1
      doe == yoe * 365 + yoe \div 4 - yoe \div 100 + doy
  IN  era * 146097 + doe - 719468

\* the civil date <<y, m, d>> of a day number (getFullYear, getMonth + 1, getDate)
CivilFromDays(t) ==
  LET z   == t + 719468
      era == z \div 146097
      doe == z - era * 146097
      yoe == (doe - doe \div 1460 + doe \div 36524 - doe \div 146096) \div 365
      doy == doe - (365 * yoe + yoe \div 4 - yoe \div 100)
      mp  == (5 * doy + 2) \div 153
      d   == doy - (153 * mp + 2) \div 5 + 1
      m   == IF mp < 10 THEN mp + 3 ELSE mp - 9
      y   == yoe + era * 400 + (IF m <= 2 THEN 1 ELSE 0)
  IN  <<y, m, d>>

\* new Date("YYYY-MM-DD")
ParseDate(s) == DaysFromCivil(s[1], s[2], s[3])

\* date.toISOString().split('T')[0]
ToISODate(t) == CivilFromDays(t)

\* date.setDate(date.getDate() + k)
AddDays(t, k) == t + k

\* date.setFullYear(date.getFullYear() + 1): the day of month is kept and
\* overflows into the next month (Feb 29 becomes Mar 1)
AddYear(t) ==
  LET c == CivilFromDays(t)
  IN  DaysFromCivil(c[1] + 1, c[2], 1) + (c[3] - 1)

\* date.setMonth(date.getMonth() + k): the month wraps into the year and the
\* day of month overflows into the following month (Aug 31 + 6 is Mar 2 or 3)
AddMonths(t, k) ==
  LET c  == CivilFromDays(t)
      m0 == (c[2] - 1) + k
      y  == c[1] + m0 \div 12
      m  == (m0 % 12) + 1
  IN  DaysFromCivil(y, m, 1) + (c[3] - 1)

\* chronological order of two date strings (SQL date columns, ISO strings)
DateLeq(a, b) == ParseDate(a) <= ParseDate(b)

(***************************************************************************)
(* Rosters                                                                 *)
(***************************************************************************)
\* a person: Swimmer rows carry no order column, leader tuples do
Person(i, n, o) == [id |-> i, name |-> n, order |-> o]

\* the sixteen leader names, in their order of the hardcoded lists
LeaderNames ==
  <<"L01", "L02", "L03", "L04", "L05", "L06", "L07", "L08",
    "L09", "L10", "L11", "L12", "L13", "L14", "L15", "L16">>

\* setLeaderForDate's fallback list: ids 1..16, order = id
FallbackLeaders == [i \in 1..16 |-> Person(i, LeaderNames[i], i)]

\* getLeaderForDate's list: ids 1..4, then the timestamp ids 1748413969681 ...
\* 1748414073820 of the front end.  They exceed the checker's integers and
\* are kept as 1005001 .. 1016001: distinct from each other and from 1..16.
DefaultLeaderId(i) == IF i <= 4 THEN i ELSE 1000000 + i * 1000 + 1

defaultLeaders == [i \in 1..16 |-> Person(DefaultLeaderId(i), LeaderNames[i], i)]

\* swimmers of initializeSampleData (ids 1 and 2) and one created later
Swimmer(i) == Person(i, <<"S1", "S2", "S3">>[i], 0)

\* Swimmer[] arguments of generateLeaderSchedule
SwimmerLists == { <<>>, <<Swimmer(3), Swimmer(1), Swimmer(2)>> }

\* a leaders list of the front end, in arbitrary order
CustomLeaders == <<Person(9, "L09", 3), Person(5, "L05", 1), Person(2, "L02", 2)>>

\* the optional leaders argument of setLeaderForDate: <<>> when it is omitted,
\* <<list>> when a list is passed.  The route omits it.
LeaderArgs == { <<>> }

\* leaderId arguments: a member of every list and table here, and a stranger
LeaderIds == { 2, 99 }

\* contents of the swimmers table
SwimmerTables == { {}, {1, 2, 3} }

\* startDate / date arguments: one day apart, the first a 365-day year ahead,
\* the second a 366-day one
StartDates == { <<2027, 2, 28>>, <<2027, 3, 1>> }

\* the wider inputs of the single-call specification: the scenario date of the
\* specification, a leap day, month ends whose month arithmetic overflows
OnceDates ==
  { <<2025, 6, 2>>, <<2027, 2, 28>>, <<2027, 3, 1>>, <<2027, 8, 31>>,
    <<2027, 12, 31>>, <<2028, 2, 29>>, <<2028, 3, 1>>, <<2026, 8, 30>> }

OnceSwimmerLists == SwimmerLists \cup { <<Swimmer(2)>>, <<Swimmer(1), Swimmer(2)>> }

OnceLeaderIds == { 2, 5, 9, 99 }

\* a leaders list in which two members have the same order
TiedLeaders == <<Person(9, "L09", 1), Person(5, "L05", 1), Person(2, "L02", 2)>>

OnceLeaderArgs == { <<>>, <<CustomLeaders>>, <<TiedLeaders>> }

OnceSwimmerTables == { {}, {1, 2}, {1, 2, 3} }

(***************************************************************************)
(* Frames of the async calls                                               *)
(***************************************************************************)
\* the callers that invoke the storage without waiting for one another
Callers == {1, 2}

\* the frame of a call that has not been made.  A frame holds where the call
\* stands ("idle" before it is made, "running" while it is suspended at an
\* await, "done" after its return or throw), the locals of its loop (roster,
\* first index, first date), the number of windows it has created, how often
\* it was resumed for one window, and whether another call was suspended when
\* it began.
NotCalled == [ pc |-> "idle", roster |-> <<>>, startIndex |-> 0, startDate |-> 0, created |-> 0, resumed |-> 0, raced |-> FALSE ]

\* the loop state of a call that has not been made.  A call in progress holds
\* where it stands ("expand": the while loop of generateRecurringSessions,
\* "weekdays": the loops of generateWeeklyByWeekdays, "rotate": the while loop
\* of generateLeaderSchedule / setLeaderForDate, "done": returned or thrown),
\* its arguments and its loop variables.
NoLoop == [ pc |-> "idle", args |-> <<>>, currentDate |-> 0, endOfYear |-> 0, count |-> 0, position |-> 0 ]

(***************************************************************************)
(* Storage primitives                                                      *)
(***************************************************************************)
\* createLeaderSchedule: the record stored for an insert, under the next id
createLeaderSchedule(id, insertSchedule) ==
  [ id        |-> id,
    swimmerId |-> insertSchedule.swimmerId,
    startDate |-> insertSchedule.startDate,
    endDate   |-> insertSchedule.endDate,
    isActive  |-> IF "isActive" \in DOMAIN insertSchedule
                  THEN insertSchedule.isActive ELSE TRUE ]

\* mutant: the loop flips the flag instead of clearing it
Invalidate_toggle(schedule) == [schedule EXCEPT !.isActive = ~schedule.isActive]

\* "if (schedule.isActive) schedule.isActive = false" for one record
Invalidate(schedule) ==
  IF schedule.isActive THEN [schedule EXCEPT !.isActive = FALSE] ELSE schedule

\* the loop over the whole map
InvalidateAll(schedules) == [i \in 1..Len(schedules) |-> Invalidate(schedules[i])]

\* mutant: the window end is taken three days, not two, after its start
ScheduleEndDate_long(currentDate) == AddDays(currentDate, 3)

\* scheduleEndDate: the last day of the window that starts at currentDate
ScheduleEndDate(currentDate) == AddDays(currentDate, 2)

\* mutant: the loop moves on four days, leaving a day between two windows
PeriodDays_gap == 3 + 1

\* currentDate.setDate(currentDate.getDate() + 3): the days from the start of
\* one window to the start of the next
PeriodDays == 3

\* currentDate when the loop body runs for the (j+1)-th time
PeriodStart(startDate, j) == AddDays(startDate, j * PeriodDays)

\* mutant: the roster index is never advanced
IndexAt_stuck(startIndex, j, n) == startIndex % n

\* the roster index when the loop body runs for the (j+1)-th time:
\* index = (index + 1) % n, executed j times
IndexAt(startIndex, j, n) == (startIndex + j) % n

\* the insert handed to createLeaderSchedule for one window
WindowInsert(member, currentDate) ==
  [ swimmerId |-> member.id,
    startDate |-> ToISODate(currentDate),
    endDate   |-> ToISODate(ScheduleEndDate(currentDate)),
    isActive  |-> TRUE ]

\* [...list].sort((a, b) => a[key] - b[key]): Array.prototype.sort is stable,
\* so x goes behind every element whose key is not greater
RECURSIVE InsertByKey(_, _, _)
InsertByKey(x, sorted, key) ==
  IF sorted = <<>> THEN <<x>>
  ELSE IF sorted[1][key] <= x[key]
       THEN <<sorted[1]>> \o InsertByKey(x, Tail(sorted), key)
       ELSE <<x>> \o sorted

RECURSIVE SortByKey(_, _)
SortByKey(list, key) ==
  IF list = <<>> THEN <<>>
  ELSE InsertByKey(list[Len(list)], SortByKey(SubSeq(list, 1, Len(list) - 1), key), key)

\* list.findIndex(l => l.id === id), 0-based, -1 when absent
RECURSIVE FindIndexFrom(_, _, _)
FindIndexFrom(list, id, i) ==
  IF i > Len(list) THEN -1
  ELSE IF list[i].id = id THEN i - 1
  ELSE FindIndexFrom(list, id, i + 1)

findIndex(list, id) == FindIndexFrom(list, id, 1)

\* the (member, startDate, endDate) triples of a sequence of records
Triples(records) ==
  [i \in 1..Len(records) |->
     <<records[i].swimmerId, records[i].startDate, records[i].endDate>>]

\* one entry of the call history (kept for stating the claims)
LogEntry(op, date, roster, leaderId, result, created) ==
  [ op |-> op, date |-> date, roster |-> roster, leaderId |-> leaderId,
    result |-> result, out |-> Triples(created),
    firstId |-> currentLeaderScheduleId ]

(***************************************************************************)
(* MemStorage (server/storage.ts)                                          *)
(***************************************************************************)
\* while (currentDate < endOfYear): may another window start at currentDate
MemLoopGuard(currentDate, endOfYear) == currentDate < endOfYear

\* how often the body of the while loop runs: currentDate only grows, so it is
\* the number of period starts that pass the guard
MemWindowCount(startDate, endOfYear) ==
  Cardinality({ j \in 0..(endOfYear - startDate) :
                  MemLoopGuard(PeriodStart(startDate, j), endOfYear) })

\* the records created by the rotation loop, ids counting up from id
MemRotation(roster, startIndex, startDate, endOfYear, id) ==
  [k \in 1..MemWindowCount(startDate, endOfYear) |->
     createLeaderSchedule(id + (k - 1),
        WindowInsert(roster[(IndexAt(startIndex, k - 1, Len(roster)) % Len(roster)) + 1],
                     PeriodStart(startDate, k - 1)))]

\* mutant: the rotation resumes after the schedules already stored
MemGenerateStartIndex_resume == Len(leaderSchedules)

\* the index the generation starts from
MemGenerateStartIndex == 0

\* MemStorage.generateLeaderSchedule(startDate, swimmers)
MemGenerateLeaderSchedule(startDate, swimmerList) ==
  /\ storageImpl = "mem"
  /\ IF Len(swimmerList) = 0
     THEN /\ callLog' = Append(callLog,
                 LogEntry("generate", startDate, swimmerList, 0, "ok", <<>>))
          /\ UNCHANGED <<leaderSchedules, currentLeaderScheduleId>>
     ELSE LET start     == ParseDate(startDate)
              endOfYear == AddYear(start)
              created   == MemRotation(swimmerList, MemGenerateStartIndex, start,
                                       endOfYear, currentLeaderScheduleId)
          IN  /\ leaderSchedules' = InvalidateAll(leaderSchedules) \o created
              /\ currentLeaderScheduleId' = currentLeaderScheduleId + Len(created)
              /\ callLog' = Append(callLog,
                     LogEntry("generate", startDate, swimmerList, 0, "ok", created))
  /\ UNCHANGED <<storageImpl, swimmers, trainingSessions, currentSessionId, now, invocations, loop>>

\* mutant: the validation runs after the invalidation loop
RejectedSchedules_late(schedules) == InvalidateAll(schedules)

\* mutant: the pivot is looked up in the list as passed, not in the sorted one
StartIndex_unsorted(leadersList, sortedLeaders, leaderId) == findIndex(leadersList, leaderId)

\* the stored schedules a call leaves behind when it throws at its validation:
\* the throw comes before the loop that invalidates
RejectedSchedules(schedules) == schedules

\* const startIndex = sortedLeaders.findIndex(l => l.id === leaderId)
StartIndex(leadersList, sortedLeaders, leaderId) == findIndex(sortedLeaders, leaderId)

\* const leadersList = leaders || [ ...fallback... ]
LeadersList(leadersArg) == IF leadersArg = <<>> THEN FallbackLeaders ELSE leadersArg[1]

\* MemStorage.setLeaderForDate(date, leaderId, leaders?)
MemSetLeaderForDate(date, leaderId, leadersArg) ==
  /\ storageImpl = "mem"
  /\ LET leadersList == LeadersList(leadersArg)
     IN  IF findIndex(leadersList, leaderId) = -1
         THEN /\ callLog' = Append(callLog,
                     LogEntry("setFromDate", date, leadersList, leaderId, "error", <<>>))
              /\ leaderSchedules' = RejectedSchedules(leaderSchedules)
              /\ UNCHANGED currentLeaderScheduleId
         ELSE LET targetDate    == ParseDate(date)
                  sortedLeaders == SortByKey(leadersList, "order")
                  startIndex    == StartIndex(leadersList, sortedLeaders, leaderId)
                  endOfYear     == AddYear(targetDate)
                  created       == MemRotation(sortedLeaders, startIndex, targetDate,
                                               endOfYear, currentLeaderScheduleId)
              IN  /\ leaderSchedules' = InvalidateAll(leaderSchedules) \o created
                  /\ currentLeaderScheduleId' = currentLeaderScheduleId + Len(created)
                  /\ callLog' = Append(callLog,
                         LogEntry("setFromDate", date, leadersList, leaderId, "ok", created))
  /\ UNCHANGED <<storageImpl, swimmers, trainingSessions, currentSessionId, now, invocations, loop>>

\* does the window of a stored schedule contain the Date target
Contains(schedule, target) ==
  /\ target >= ParseDate(schedule.startDate)
  /\ target <= ParseDate(schedule.endDate)

\* the name of the list entry with the given id, null when there is none
NameIn(list, id) ==
  IF findIndex(list, id) = -1 THEN Null ELSE list[findIndex(list, id) + 1].name

\* the positions, in insertion order, at which the loop of getLeaderForDate
\* gets past "if (!schedule.isActive) continue" and finds the date in the window
MemMatching(target) ==
  { i \in 1..Len(leaderSchedules) :
      leaderSchedules[i].isActive /\ Contains(leaderSchedules[i], target) }

\* MemStorage.getLeaderForDate(date): the loop returns at the first such
\* schedule, with its swimmerId looked up in defaultLeaders
MemGetLeaderForDate(date) ==
  LET found == MemMatching(ParseDate(date))
  IN  IF found = {} THEN Null
      ELSE NameIn(defaultLeaders,
                  leaderSchedules[CHOOSE i \in found : \A j \in found : i <= j].swimmerId)

(***************************************************************************)
(* DatabaseStorage (the drizzle-backed variant of the same interface)      *)
(***************************************************************************)
\* db.delete(leaderSchedule).where(gte(leaderSchedule.startDate, date)):
\* the rows that stay
DbDeleteFrom(rows, date) ==
  SelectSeq(rows, LAMBDA r : ~DateLeq(date, r.startDate))

\* while (currentDate <= endDate)
DbLoopGuard(currentDate, endDate) == currentDate <= endDate

\* how often the body of the while loop runs
DbWindowCount(startDate, endDate) ==
  Cardinality({ j \in 0..(endDate - startDate) :
                  DbLoopGuard(PeriodStart(startDate, j), endDate) })

\* the rows inserted by the rotation loop, serial ids counting up from id
DbRotation(roster, startIndex, startDate, endDate, id) ==
  [k \in 1..DbWindowCount(startDate, endDate) |->
     createLeaderSchedule(id + (k - 1),
        WindowInsert(roster[IndexAt(startIndex, k - 1, Len(roster)) + 1],
                     PeriodStart(startDate, k - 1)))]

\* DatabaseStorage.generateLeaderSchedule(startDate, swimmersList): the delete
\* comes first; with no swimmer the first pass of the loop reads
\* sortedSwimmers[0].name and throws a TypeError
DbGenerateLeaderSchedule(startDate, swimmersList) ==
  /\ storageImpl = "db"
  /\ LET kept           == DbDeleteFrom(leaderSchedules, startDate)
         sortedSwimmers == SortByKey(swimmersList, "id")
         start          == ParseDate(startDate)
         endDate        == AddMonths(start, 6)
     IN  IF Len(sortedSwimmers) = 0
         THEN /\ leaderSchedules' = kept
              /\ callLog' = Append(callLog,
                     LogEntry("generate", startDate, swimmersList, 0, "error", <<>>))
              /\ UNCHANGED currentLeaderScheduleId
         ELSE LET created == DbRotation(sortedSwimmers, 0, start, endDate,
                                        currentLeaderScheduleId)
              IN  /\ leaderSchedules' = kept \o created
                  /\ currentLeaderScheduleId' = currentLeaderScheduleId + Len(created)
                  /\ callLog' = Append(callLog,
                         LogEntry("generate", startDate, swimmersList, 0, "ok", created))
  /\ UNCHANGED <<storageImpl, swimmers, trainingSessions, currentSessionId, now, invocations, loop>>

\* db.select().from(swimmers).orderBy(swimmers.id)
RECURSIVE TableOrderedById(_)
TableOrderedById(ids) ==
  IF ids = {} THEN <<>>
  ELSE LET m == CHOOSE x \in ids : \A y \in ids : x <= y
       IN  <<Swimmer(m)>> \o TableOrderedById(ids \ {m})

\* DatabaseStorage.setLeaderForDate(date, leaderId)
DbSetLeaderForDate(date, leaderId) ==
  /\ storageImpl = "db"
  /\ LET allLeaders    == TableOrderedById(swimmers)
         selectedIndex == findIndex(allLeaders, leaderId)
     IN  IF Len(allLeaders) = 0 \/ selectedIndex = -1
         THEN /\ callLog' = Append(callLog,
                     LogEntry("setFromDate", date, allLeaders, leaderId, "error", <<>>))
              /\ leaderSchedules' = RejectedSchedules(leaderSchedules)
              /\ UNCHANGED currentLeaderScheduleId
         ELSE LET rotationDate    == ParseDate(date)
                  scheduleEndDate == AddMonths(rotationDate, 6)
                  created         == DbRotation(allLeaders, selectedIndex, rotationDate,
                                                scheduleEndDate, currentLeaderScheduleId)
              IN  /\ leaderSchedules' = DbDeleteFrom(leaderSchedules, date) \o created
                  /\ currentLeaderScheduleId' = currentLeaderScheduleId + Len(created)
                  /\ callLog' = Append(callLog,
                         LogEntry("setFromDate", date, allLeaders, leaderId, "ok", created))
  /\ UNCHANGED <<storageImpl, swimmers, trainingSessions, currentSessionId, now, invocations, loop>>

\* the rows selected by DatabaseStorage.getLeaderForDate
DbMatching(date) ==
  { i \in 1..Len(leaderSchedules) :
      /\ DateLeq(leaderSchedules[i].startDate, date)
      /\ DateLeq(date, leaderSchedules[i].endDate)
      /\ leaderSchedules[i].isActive }

\* DatabaseStorage.getLeaderForDate(date): schedules[0] of a query without
\* ORDER BY is any of the matching rows, so the call has a set of outcomes
DbGetLeaderForDate(date) ==
  IF DbMatching(date) = {} THEN { Null }
  ELSE { IF leaderSchedules[i].swimmerId \in swimmers
         THEN Swimmer(leaderSchedules[i].swimmerId).name ELSE Null :
         i \in DbMatching(date) }

\* the outcomes of storage.getLeaderForDate(date) under the storage in use
getLeaderForDate(date) ==
  IF storageImpl = "mem" THEN { MemGetLeaderForDate(date) } ELSE DbGetLeaderForDate(date)

(***************************************************************************)
(* Training sessions: records and inputs                                   *)
(***************************************************************************)
\* an optional value (T | null | undefined): absent or present
None == <<>>

Some(v) == <<v>>

\* v || null: a falsy value of the field's type (empty string, 0) becomes
\* null; an array, even an empty one, is truthy
OrNull(v, Falsy) == IF v = None \/ v[1] \in Falsy THEN None ELSE v

FalsyText == { "" }

FalsyNumber == { 0 }

FalsyArray == {}

\* the fields of InsertTrainingSession (shared/schema.ts)
InsertTrainingSession(title, date, isRecurring, recurringPattern, recurringEndDate, weekdays, maxOccurrences) ==
  [ title            |-> title,
    type             |-> Some("aerobic"),
    date             |-> date,
    startTime        |-> "06:00",
    endTime          |-> Some("07:30"),
    strokes          |-> Some(<<"freestyle">>),
    distance         |-> Some(3000),
    intensity        |-> Some("easy"),
    lanes            |-> Some("1-4"),
    menuDetails      |-> Some("20x100m"),
    coachNotes       |-> None,
    isRecurring      |-> isRecurring,
    recurringPattern |-> recurringPattern,
    recurringEndDate |-> recurringEndDate,
    weekdays         |-> weekdays,
    maxOccurrences   |-> maxOccurrences ]

\* { ...insertSession, id }
WithId(session, id) ==
  [f \in DOMAIN session \cup {"id"} |-> IF f = "id" THEN id ELSE session[f]]

\* the two sample sessions of initializeSampleData, dated today
SampleSessions(today) ==
  << WithId(InsertTrainingSession(Some("Aerobic"), ToISODate(today), FALSE, None, None,
                                  None, None), 1),
     [WithId(InsertTrainingSession(Some("Sprint"), ToISODate(today), FALSE, None, None,
                                   None, None), 2) EXCEPT
        !.type = Some("sprint"), !.startTime = "19:00", !.endTime = Some("20:30"),
        !.distance = Some(800), !.intensity = Some("race_pace"), !.lanes = Some("5-8")] >>

\* the day the process runs on (new Date())
Todays == { <<2025, 6, 1>> }

\* inputs of createTrainingSession
Titles == { Some(""), Some("Aerobic") }

\* a Monday, a Monday one week before the day one year from today, a 31st
TemplateDates == { <<2025, 6, 2>>, <<2026, 5, 25>>, <<2026, 1, 31>> }

RecognizedPatterns == { "daily", "weekly", "biweekly", "monthly", "weekly_by_weekdays" }

RecurringPatterns == { None, Some("yearly") } \cup { Some(p) : p \in RecognizedPatterns }

RecurringEndDates == { None, Some(<<2025, 6, 11>>) }

WeekdayLists == { None, Some(<<>>), Some(<<"1", "3">>) }

MaxOccurrencesArgs == { None, Some(0), Some(2), Some(3), Some(60) }

\* parseInt(d) of a weekday string
parseInt(d) == CHOOSE n \in 0..9 : <<"0", "1", "2", "3", "4", "5", "6", "7", "8", "9">>[n + 1] = d

\* date.getDay(): 0 is Sunday (1970-01-01 was a Thursday)
getDay(t) == (t + 4) % 7

\* const endDate = baseSession.recurringEndDate ? new Date(...) : null
EndDate(baseSession) ==
  IF baseSession.recurringEndDate = None THEN None
  ELSE Some(ParseDate(baseSession.recurringEndDate[1]))

\* if (endDate && date > endDate)
AfterEndDate(date, endDate) == endDate # None /\ date > endDate[1]

\* mutant: a larger default
DefaultMaxOccurrences_more == 50 + 10

\* the default for maxOccurrences
DefaultMaxOccurrences == 50

\* const maxOccurrences = baseSession.maxOccurrences || 50
MaxOccurrences(baseSession) ==
  IF OrNull(baseSession.maxOccurrences, FalsyNumber) = None THEN DefaultMaxOccurrences
  ELSE baseSession.maxOccurrences[1]

\* oneYearFromNow: new Date() with setFullYear(getFullYear() + 1)
OneYearFromNow == AddYear(now)

\* mutant: every fixed-step pattern advances by one day
StepDays_daily(pattern) == 1

\* the days a fixed-step pattern advances by
StepDays(pattern) ==
  CASE pattern = "daily"    -> 1
    [] pattern = "weekly"   -> 7
    [] pattern = "biweekly" -> 14

\* the switch over recurringPattern: the next currentDate
NextDate(pattern, currentDate) ==
  IF pattern = "monthly" THEN AddMonths(currentDate, 1)
  ELSE AddDays(currentDate, StepDays(pattern))

(***************************************************************************)
(* Recurrence loops: dates                                                 *)
(***************************************************************************)
\* the least element of a non-empty set of numbers
Min(S) == CHOOSE x \in S : \A y \in S : x <= y

\* currentDate after j passes through the switch, starting from startDate:
\* each pass steps from the date the pass before produced (the j passes are
\* evaluated as two runs, the date after the first run being computed first)
RECURSIVE DateAfter(_, _, _)
DateAfter(pattern, startDate, j) ==
  IF j = 0 THEN startDate
  ELSE IF j = 1 THEN NextDate(pattern, startDate)
  ELSE CHOOSE currentDate \in
         { DateAfter(pattern, middle, j - (j \div 2)) :
             middle \in { DateAfter(pattern, startDate, j \div 2) } } : TRUE

\* the passes of "for (const weekday of weekdays)" over the weeks, numbered
\* from 0: at most one week of passes is skipped as not after the start, so
\* these are enough for maxOccurrences sessions
WeekdayPasses(baseSession) ==
  0..(MaxOccurrences(baseSession) + Len(baseSession.weekdays[1]) - 1)

\* sessionDate of pass s: currentWeek is the Sunday of the start's week,
\* moved on by 7 days after each round of the weekdays
SessionDate(baseSession, startDate, s) ==
  LET weekdays    == baseSession.weekdays[1]
      currentWeek == AddDays(AddDays(startDate, -getDay(startDate)),
                             7 * (s \div Len(weekdays)))
  IN  AddDays(currentWeek, parseInt(weekdays[(s % Len(weekdays)) + 1]))

\* the dates generateWeeklyByWeekdays creates sessions for, in order, given the
\* passes it skips ("continue") and the passes after whose session it returns
\* as too far in the future
WeekdaySessionDates(baseSession, startDate, skipped, tooFar) ==
  LET accepted   == WeekdayPasses(baseSession) \ skipped
      countAt(s) == Cardinality({ t \in accepted : t < s })
      ended      == { s \in accepted :
                        AfterEndDate(SessionDate(baseSession, startDate, s),
                                     EndDate(baseSession)) }
      created    == { s \in accepted :
                        /\ countAt(s) < MaxOccurrences(baseSession)
                        /\ \A t \in ended : s < t
                        /\ \A t \in tooFar : s <= t }
  IN  [k \in 1..Cardinality(created) |->
         SessionDate(baseSession, startDate,
                     CHOOSE s \in created : countAt(s) = k - 1)]

(***************************************************************************)
(* MemStorage: createTrainingSession and its recurrence generation         *)
(***************************************************************************)
\* mutant: the generated session keeps the recurrence fields of baseSession
MemNewSession_spread(baseSession, newId, date) ==
  [WithId(baseSession, newId) EXCEPT !.date = ToISODate(date)]

\* the session generated by the fixed-step loop: the spread of baseSession
\* with id and date set and three recurrence fields overwritten
MemNewSession(baseSession, newId, date) ==
  [WithId(baseSession, newId) EXCEPT
     !.date             = ToISODate(date),
     !.isRecurring      = FALSE,
     !.recurringPattern = None,
     !.recurringEndDate = None]

\* the session generated by generateWeeklyByWeekdays
MemNewWeekdaySession(baseSession, newId, date) ==
  [WithId(baseSession, newId) EXCEPT
     !.date             = ToISODate(date),
     !.type             = OrNull(baseSession.type, FalsyText),
     !.title            = OrNull(baseSession.title, FalsyText),
     !.endTime          = OrNull(baseSession.endTime, FalsyText),
     !.strokes          = OrNull(baseSession.strokes, FalsyArray),
     !.distance         = OrNull(baseSession.distance, FalsyNumber),
     !.intensity        = OrNull(baseSession.intensity, FalsyText),
     !.lanes            = OrNull(baseSession.lanes, FalsyText),
     !.menuDetails      = OrNull(baseSession.menuDetails, FalsyText),
     !.coachNotes       = OrNull(baseSession.coachNotes, FalsyText),
     !.isRecurring      = FALSE,
     !.recurringPattern = None,
     !.recurringEndDate = None]

\* if (sessionDate <= startDate) continue
MemSkipsDate(sessionDate, startDate) == sessionDate <= startDate

\* MemStorage.generateWeeklyByWeekdays: the sessions it creates
MemGenerateWeeklyByWeekdays(baseSession, startDate, newId) ==
  IF baseSession.weekdays = None \/ Len(baseSession.weekdays[1]) = 0 THEN <<>>
  ELSE LET skipped == { s \in WeekdayPasses(baseSession) :
                          MemSkipsDate(SessionDate(baseSession, startDate, s), startDate) }
           tooFar  == { s \in WeekdayPasses(baseSession) :
                          SessionDate(baseSession, startDate, s) > OneYearFromNow }
           dates   == WeekdaySessionDates(baseSession, startDate, skipped, tooFar)
       IN  [k \in 1..Len(dates) |->
              MemNewWeekdaySession(baseSession, newId + (k - 1), dates[k])]

\* case 'weekly': if (baseSession.weekdays && baseSession.weekdays.length > 0)
MemWeeklyUsesWeekdays(baseSession) ==
  /\ baseSession.recurringPattern[1] = "weekly"
  /\ baseSession.weekdays # None
  /\ Len(baseSession.weekdays[1]) > 0

\* the patterns the switch of MemStorage.generateRecurringSessions has a case for
MemPatterns == { "daily", "weekly", "biweekly", "monthly" }

\* the dates the while loop of MemStorage.generateRecurringSessions creates
\* sessions for: pass i computes its date, breaks before creating when the
\* date is after endDate, and breaks after creating when the date is more
\* than a year from now
MemRecurringDates(baseSession) ==
  LET pattern   == baseSession.recurringPattern[1]
      startDate == ParseDate(baseSession.date)
      passes    == 1..MaxOccurrences(baseSession)
      ended     == { i \in passes : AfterEndDate(DateAfter(pattern, startDate, i),
                                                 EndDate(baseSession)) }
      tooFar    == { i \in passes : DateAfter(pattern, startDate, i) > OneYearFromNow }
      count     == Min({ MaxOccurrences(baseSession) } \cup { i - 1 : i \in ended }
                       \cup tooFar)
  IN  [i \in 1..count |-> DateAfter(pattern, startDate, i)]

\* mutant: a pattern without a case falls through to the daily step
MemGenerateRecurringSessions_default(baseSession, newId) ==
  IF OrNull(baseSession.recurringPattern, FalsyText) = None THEN <<>>
  ELSE IF ~(0 < MaxOccurrences(baseSession)) THEN <<>>
  ELSE IF MemWeeklyUsesWeekdays(baseSession)
  THEN MemGenerateWeeklyByWeekdays(baseSession, ParseDate(baseSession.date), newId)
  ELSE LET stepped == IF baseSession.recurringPattern[1] \in MemPatterns THEN baseSession
                      ELSE [baseSession EXCEPT !.recurringPattern = Some("daily")]
           dates   == MemRecurringDates(stepped)
       IN  [i \in 1..Len(dates) |-> MemNewSession(baseSession, newId + (i - 1), dates[i])]

\* MemStorage.generateRecurringSessions(baseSession): the sessions it creates
MemGenerateRecurringSessions(baseSession, newId) ==
  IF OrNull(baseSession.recurringPattern, FalsyText) = None THEN <<>>
  ELSE IF ~(0 < MaxOccurrences(baseSession)) THEN <<>>
  ELSE IF baseSession.recurringPattern[1] \notin MemPatterns THEN <<>>
  ELSE IF MemWeeklyUsesWeekdays(baseSession)
  THEN MemGenerateWeeklyByWeekdays(baseSession, ParseDate(baseSession.date), newId)
  ELSE LET dates == MemRecurringDates(baseSession)
       IN  [i \in 1..Len(dates) |-> MemNewSession(baseSession, newId + (i - 1), dates[i])]

\* MemStorage.createTrainingSession(insertSession)
MemCreateTrainingSession(insertSession) ==
  /\ storageImpl = "mem"
  /\ LET id      == currentSessionId
         session == WithId(insertSession, id)
         created == IF /\ insertSession.isRecurring
                       /\ OrNull(insertSession.recurringPattern, FalsyText) # None
                    THEN MemGenerateRecurringSessions(insertSession, id + 1)
                    ELSE <<>>
     IN  /\ trainingSessions' = (trainingSessions \o <<session>>) \o created
         /\ currentSessionId' = id + 1 + Len(created)
         /\ callLog' = Append(callLog,
                [ op |-> "createTrainingSession", session |-> insertSession,
                  result |-> "ok", returned |-> session,
                  before |-> Len(trainingSessions) ])
  /\ UNCHANGED <<storageImpl, swimmers, leaderSchedules, currentLeaderScheduleId, now,
               invocations, loop>>

(***************************************************************************)
(* DatabaseStorage: createTrainingSession and its recurrence generation    *)
(***************************************************************************)
\* the values of a generated row: the spread of baseSession with the date set,
\* the optional columns passed through "|| null" and the five recurrence
\* columns overwritten
DbNewSession(baseSession, newId, date) ==
  [WithId(baseSession, newId) EXCEPT
     !.date             = ToISODate(date),
     !.title            = OrNull(baseSession.title, FalsyText),
     !.type             = OrNull(baseSession.type, FalsyText),
     !.endTime          = OrNull(baseSession.endTime, FalsyText),
     !.strokes          = OrNull(baseSession.strokes, FalsyArray),
     !.distance         = OrNull(baseSession.distance, FalsyNumber),
     !.intensity        = OrNull(baseSession.intensity, FalsyText),
     !.lanes            = OrNull(baseSession.lanes, FalsyText),
     !.menuDetails      = OrNull(baseSession.menuDetails, FalsyText),
     !.coachNotes       = OrNull(baseSession.coachNotes, FalsyText),
     !.isRecurring      = FALSE,
     !.recurringPattern = None,
     !.recurringEndDate = None,
     !.weekdays         = None,
     !.maxOccurrences   = None]

\* the row createTrainingSession inserts for the session itself
DbSessionRow(insertSession, id) ==
  [WithId(insertSession, id) EXCEPT
     !.title            = OrNull(insertSession.title, FalsyText),
     !.type             = OrNull(insertSession.type, FalsyText),
     !.endTime          = OrNull(insertSession.endTime, FalsyText),
     !.strokes          = OrNull(insertSession.strokes, FalsyArray),
     !.distance         = OrNull(insertSession.distance, FalsyNumber),
     !.intensity        = OrNull(insertSession.intensity, FalsyText),
     !.lanes            = OrNull(insertSession.lanes, FalsyText),
     !.menuDetails      = OrNull(insertSession.menuDetails, FalsyText),
     !.coachNotes       = OrNull(insertSession.coachNotes, FalsyText),
     !.recurringPattern = OrNull(insertSession.recurringPattern, FalsyText),
     !.weekdays         = OrNull(insertSession.weekdays, FalsyArray),
     !.maxOccurrences   = OrNull(insertSession.maxOccurrences, FalsyNumber)]

\* the dates the while loop of generateDailySessions, generateWeeklySessions,
\* generateBiweeklySessions or generateMonthlySessions inserts rows for: the
\* first date is one step after startDate, each pass breaks before inserting
\* when its date is after endDate and steps on after inserting
DbSteppedDates(baseSession, pattern, startDate) ==
  LET passes == 1..MaxOccurrences(baseSession)
      ended  == { i \in passes : AfterEndDate(DateAfter(pattern, startDate, i),
                                              EndDate(baseSession)) }
      count  == Min({ MaxOccurrences(baseSession) } \cup { i - 1 : i \in ended })
  IN  [i \in 1..count |-> DateAfter(pattern, startDate, i)]

\* generateDailySessions / generateWeeklySessions / generateBiweeklySessions /
\* generateMonthlySessions: the rows inserted
DbGenerateSteppedSessions(baseSession, pattern, startDate, newId) ==
  IF ~(0 < MaxOccurrences(baseSession)) THEN <<>>
  ELSE LET dates == DbSteppedDates(baseSession, pattern, startDate)
       IN  [i \in 1..Len(dates) |-> DbNewSession(baseSession, newId + (i - 1), dates[i])]

\* if (sessionDate < startDate) continue
DbSkipsDate(sessionDate, startDate) == sessionDate < startDate

\* DatabaseStorage.generateWeeklyByWeekdays: the rows it inserts (it has no
\* check against a date too far in the future)
DbGenerateWeeklyByWeekdays(baseSession, startDate, newId) ==
  IF baseSession.weekdays = None \/ Len(baseSession.weekdays[1]) = 0 THEN <<>>
  ELSE LET skipped == { s \in WeekdayPasses(baseSession) :
                          DbSkipsDate(SessionDate(baseSession, startDate, s), startDate) }
           dates   == WeekdaySessionDates(baseSession, startDate, skipped, {})
       IN  [k \in 1..Len(dates) |-> DbNewSession(baseSession, newId + (k - 1), dates[k])]

\* the patterns the switch of DatabaseStorage.generateRecurringSessions sends
\* to a stepping generator
DbSteppedPatterns == { "daily", "weekly", "biweekly", "monthly" }

\* DatabaseStorage.generateRecurringSessions(baseSession, originalSessionId):
\* the rows it inserts
DbGenerateRecurringSessions(baseSession, newId) ==
  IF OrNull(baseSession.recurringPattern, FalsyText) = None \/ ~baseSession.isRecurring
  THEN <<>>
  ELSE LET pattern   == baseSession.recurringPattern[1]
           startDate == ParseDate(baseSession.date)
       IN  IF pattern \in DbSteppedPatterns
           THEN DbGenerateSteppedSessions(baseSession, pattern, startDate, newId)
           ELSE IF pattern = "weekly_by_weekdays" /\ baseSession.weekdays # None
           THEN DbGenerateWeeklyByWeekdays(baseSession, startDate, newId)
           ELSE <<>>

\* DatabaseStorage.createTrainingSession(insertSession)
DbCreateTrainingSession(insertSession) ==
  /\ storageImpl = "db"
  /\ LET id      == currentSessionId
         session == DbSessionRow(insertSession, id)
         created == IF insertSession.isRecurring
                    THEN DbGenerateRecurringSessions(insertSession, id + 1)
                    ELSE <<>>
     IN  /\ trainingSessions' = (trainingSessions \o <<session>>) \o created
         /\ currentSessionId' = id + 1 + Len(created)
         /\ callLog' = Append(callLog,
                [ op |-> "createTrainingSession", session |-> insertSession,
                  result |-> "ok", returned |-> session,
                  before |-> Len(trainingSessions) ])
  /\ UNCHANGED <<storageImpl, swimmers, leaderSchedules, currentLeaderScheduleId, now,
               invocations, loop>>

(***************************************************************************)
(* Deleting training sessions                                              *)
(***************************************************************************)
\* the stored session with the given id, None when there is none
getTrainingSession(id) ==
  LET found == SelectSeq(trainingSessions, LAMBDA session : session.id = id)
  IN  IF found = <<>> THEN None ELSE Some(found[1])

\* mutant: the next id is recomputed from the number of stored sessions
MemDeleteTrainingSession_renumber(id) ==
  /\ storageImpl = "mem"
  /\ trainingSessions' = SelectSeq(trainingSessions, LAMBDA session : session.id # id)
  /\ currentSessionId' = Len(trainingSessions') + 1
  /\ callLog' = Append(callLog, [ op |-> "deleteTrainingSession", id |-> id,
                                  result |-> getTrainingSession(id) # None ])
  /\ UNCHANGED <<storageImpl, swimmers, leaderSchedules, currentLeaderScheduleId,
               now, invocations, loop>>

\* MemStorage.deleteTrainingSession(id): this.trainingSessions.delete(id)
MemDeleteTrainingSession(id) ==
  /\ storageImpl = "mem"
  /\ trainingSessions' = SelectSeq(trainingSessions, LAMBDA session : session.id # id)
  /\ callLog' = Append(callLog, [ op |-> "deleteTrainingSession", id |-> id,
                                  result |-> getTrainingSession(id) # None ])
  /\ UNCHANGED <<storageImpl, swimmers, leaderSchedules, currentLeaderScheduleId,
               currentSessionId, now, invocations, loop>>

\* DatabaseStorage.deleteTrainingSession(id): delete ... where id = id
DbDeleteTrainingSession(id) ==
  /\ storageImpl = "db"
  /\ trainingSessions' = SelectSeq(trainingSessions, LAMBDA row : row.id # id)
  /\ callLog' = Append(callLog, [ op |-> "deleteTrainingSession", id |-> id,
                                  result |-> getTrainingSession(id) # None ])
  /\ UNCHANGED <<storageImpl, swimmers, leaderSchedules, currentLeaderScheduleId,
               currentSessionId, now, invocations, loop>>

\* mutant: the type of the session is not compared
SameSeries_anyType(session, targetSession) ==
  /\ DateLeq(targetSession.date, session.date)
  /\ session.title = targetSession.title

\* session.date >= targetSession.date && session.title === targetSession.title
\* && session.type === targetSession.type (the dates are compared as strings)
SameSeries(session, targetSession) ==
  /\ DateLeq(targetSession.date, session.date)
  /\ session.title = targetSession.title
  /\ session.type = targetSession.type

\* MemStorage.deleteFutureTrainingSessions(id) (the MemStorage that has it)
MemDeleteFutureTrainingSessions(id) ==
  /\ storageImpl = "mem"
  /\ LET targetSession == getTrainingSession(id)
     IN  IF targetSession = None
         THEN /\ UNCHANGED trainingSessions
              /\ callLog' = Append(callLog, [ op |-> "deleteFutureTrainingSessions",
                                              id |-> id, target |-> None,
                                              deleted |-> {}, result |-> FALSE ])
         ELSE LET deletedIds == { trainingSessions[i].id :
                                    i \in { j \in 1..Len(trainingSessions) :
                                              SameSeries(trainingSessions[j],
                                                         targetSession[1]) } }
              IN  /\ trainingSessions' =
                       SelectSeq(trainingSessions,
                                 LAMBDA session : session.id \notin deletedIds)
                  /\ callLog' = Append(callLog, [ op |-> "deleteFutureTrainingSessions",
                                                  id |-> id, target |-> targetSession,
                                                  deleted |-> deletedIds,
                                                  result |-> Cardinality(deletedIds) > 0 ])
  /\ UNCHANGED <<storageImpl, swimmers, leaderSchedules, currentLeaderScheduleId,
               currentSessionId, now, invocations, loop>>

(***************************************************************************)
(* The state machine                                                       *)
(***************************************************************************)
\* the storage object of a fresh process: no schedule, ids from 1; MemStorage
\* holds the two sample swimmers, the swimmers table one of the given contents
InitWith(tables) ==
  /\ storageImpl \in {"mem", "db"}
  /\ leaderSchedules = <<>>
  /\ currentLeaderScheduleId = 1
  /\ swimmers \in (IF storageImpl = "mem" THEN { {1, 2} } ELSE tables)
  /\ callLog = <<>>
  /\ now \in { ParseDate(today) : today \in Todays }
  /\ trainingSessions = (IF storageImpl = "mem" THEN SampleSessions(now) ELSE <<>>)
  /\ currentSessionId = Len(trainingSessions) + 1
  /\ invocations = [p \in Callers |-> NotCalled]
  /\ loop = NoLoop

Init == InitWith(SwimmerTables)

\* serialized calls of the two generating operations
Next ==
  \/ \E startDate \in StartDates, swimmerList \in SwimmerLists :
       Len(callLog) < MaxCalls /\ MemGenerateLeaderSchedule(startDate, swimmerList)
  \/ \E date \in StartDates, leaderId \in LeaderIds, leadersArg \in LeaderArgs :
       Len(callLog) < MaxCalls /\ MemSetLeaderForDate(date, leaderId, leadersArg)
  \/ \E startDate \in StartDates, swimmersList \in SwimmerLists :
       Len(callLog) < MaxCalls /\ DbGenerateLeaderSchedule(startDate, swimmersList)
  \/ \E date \in StartDates, leaderId \in LeaderIds :
       Len(callLog) < MaxCalls /\ DbSetLeaderForDate(date, leaderId)

Spec == Init /\ [][Next]_vars

\* one call on a fresh storage, over the wider inputs
InitOnce == InitWith(OnceSwimmerTables)

NextOnce ==
  \/ \E startDate \in OnceDates, swimmerList \in OnceSwimmerLists :
       callLog = <<>> /\ MemGenerateLeaderSchedule(startDate, swimmerList)
  \/ \E date \in OnceDates, leaderId \in OnceLeaderIds, leadersArg \in OnceLeaderArgs :
       callLog = <<>> /\ MemSetLeaderForDate(date, leaderId, leadersArg)
  \/ \E startDate \in OnceDates, swimmersList \in OnceSwimmerLists :
       callLog = <<>> /\ DbGenerateLeaderSchedule(startDate, swimmersList)
  \/ \E date \in OnceDates, leaderId \in OnceLeaderIds :
       callLog = <<>> /\ DbSetLeaderForDate(date, leaderId)

SpecOnce == InitOnce /\ [][NextOnce]_vars

\* successive generateLeaderSchedule calls whose start dates lie apart by less
\* and by more than a window
ScopeDates == { <<2027, 2, 28>>, <<2027, 3, 1>>, <<2027, 3, 3>> }

NextScope ==
  \/ \E startDate \in ScopeDates, swimmerList \in SwimmerLists :
       Len(callLog) < MaxCalls /\ MemGenerateLeaderSchedule(startDate, swimmerList)
  \/ \E startDate \in ScopeDates, swimmersList \in SwimmerLists :
       Len(callLog) < MaxCalls /\ DbGenerateLeaderSchedule(startDate, swimmersList)

SpecScope == Init /\ [][NextScope]_vars

\* sessions and schedules created and deleted in any order: a single session
\* and a daily series of two occurrences; the ids deleted are the ones a
\* storage hands out first
IdSessions ==
  { InsertTrainingSession(Some("Aerobic"), <<2025, 6, 2>>, isRecurring,
                          IF isRecurring THEN Some("daily") ELSE None, None, None,
                          IF isRecurring THEN Some(2) ELSE None) :
      isRecurring \in BOOLEAN }

NextIds ==
  \/ \E insertSession \in IdSessions :
       Len(callLog) < MaxCalls /\ MemCreateTrainingSession(insertSession)
  \/ \E insertSession \in IdSessions :
       Len(callLog) < MaxCalls /\ DbCreateTrainingSession(insertSession)
  \/ \E id \in { 1, 2, 3 } :
       Len(callLog) < MaxCalls /\ MemDeleteTrainingSession(id)
  \/ \E id \in { 1, 2, 3 } :
       Len(callLog) < MaxCalls /\ DbDeleteTrainingSession(id)
  \/ \E startDate \in { <<2027, 3, 1>> }, swimmerList \in SwimmerLists \ { <<>> } :
       Len(callLog) < MaxCalls /\ MemGenerateLeaderSchedule(startDate, swimmerList)
  \/ \E date \in { <<2027, 3, 1>> }, leadersArg \in LeaderArgs :
       Len(callLog) < MaxCalls /\ MemSetLeaderForDate(date, 2, leadersArg)
  \/ \E startDate \in { <<2027, 3, 1>> }, swimmersList \in SwimmerLists \ { <<>> } :
       Len(callLog) < MaxCalls /\ DbGenerateLeaderSchedule(startDate, swimmersList)
  \/ \E date \in { <<2027, 3, 1>> } :
       Len(callLog) < MaxCalls /\ DbSetLeaderForDate(date, 2)

SpecIds == Init /\ [][NextIds]_vars

\* the MemStorage that has deleteFutureTrainingSessions: its constructor stores
\* no sample session and creates a year of windows from 2025-06-02, starting
\* with the leader of id 10
initializeLeaderSchedule ==
  LET startDate == ParseDate(<<2025, 6, 2>>)
  IN  MemRotation(FallbackLeaders, findIndex(FallbackLeaders, 10), startDate,
                  AddYear(startDate), 1)

\* a daily series of three sessions, a session of another type on the day of
\* its second one, a session of another title on the day of its third one
FutureSessions ==
  { InsertTrainingSession(Some("Aerobic"), <<2025, 6, 2>>, TRUE, Some("daily"), None,
                          None, Some(2)),
    [InsertTrainingSession(Some("Aerobic"), <<2025, 6, 3>>, FALSE, None, None, None,
                           None) EXCEPT !.type = Some("sprint")],
    InsertTrainingSession(Some(""), <<2025, 6, 4>>, FALSE, None, None, None, None) }

InitFuture ==
  /\ storageImpl = "mem"
  /\ leaderSchedules = initializeLeaderSchedule
  /\ currentLeaderScheduleId = Len(leaderSchedules) + 1
  /\ swimmers = {1, 2}
  /\ callLog = <<>>
  /\ now \in { ParseDate(today) : today \in Todays }
  /\ trainingSessions = <<>>
  /\ currentSessionId = 1
  /\ invocations = [p \in Callers |-> NotCalled]
  /\ loop = NoLoop

NextFuture ==
  \/ \E insertSession \in FutureSessions :
       Len(callLog) < MaxCalls /\ MemCreateTrainingSession(insertSession)
  \/ \E id \in { 1, 2, 3, 4, 99 } :
       Len(callLog) < MaxCalls /\ MemDeleteFutureTrainingSessions(id)

SpecFuture == InitFuture /\ [][NextFuture]_vars

(***************************************************************************)
(* Calls that interleave at their awaits (MemStorage)                      *)
(***************************************************************************)
\* how often one suspended call is resumed for a single window while the
\* other caller may run in between
MaxResumes == 1

\* how many windows the loop of a frame creates in all
FrameWindows(frame) == MemWindowCount(frame.startDate, AddYear(frame.startDate))

\* the record the k-th pass of the loop of a frame creates when the id counter
\* stands at id
FrameRecord(frame, k, id) ==
  MemRotation(frame.roster, frame.startIndex, frame.startDate,
              AddYear(frame.startDate), id - (k - 1))[k]

\* mutant: a resumed call creates nothing more
FrameRest_none(frame, id) == <<>>

\* the records a frame creates when it runs from its await to its return
\* with no other call in between
FrameRest(frame, id) ==
  SubSeq(MemRotation(frame.roster, frame.startIndex, frame.startDate,
                     AddYear(frame.startDate), id - frame.created),
         frame.created + 1, FrameWindows(frame))

\* the synchronous part of a call, up to its first await: every stored
\* schedule is invalidated and the first window is created
MemBegin(p, roster, startIndex, startDate) ==
  LET frame == [ pc |-> "running", roster |-> roster, startIndex |-> startIndex,
                 startDate |-> startDate, created |-> 0, resumed |-> 0,
                 raced |-> \E q \in Callers : invocations[q].pc = "running" ]
  IN  /\ leaderSchedules' = Append(InvalidateAll(leaderSchedules),
                                   FrameRecord(frame, 1, currentLeaderScheduleId))
      /\ currentLeaderScheduleId' = currentLeaderScheduleId + 1
      /\ invocations' = [invocations EXCEPT ![p] =
                           [frame EXCEPT !.created = 1,
                                         !.pc = IF FrameWindows(frame) = 1
                                                THEN "done" ELSE "running"]]

\* a caller invokes generateLeaderSchedule
MemGenerateLeaderScheduleBegin(p, startDate, swimmerList) ==
  /\ storageImpl = "mem"
  /\ invocations[p].pc = "idle"
  /\ IF Len(swimmerList) = 0
     THEN /\ invocations' = [invocations EXCEPT ![p].pc = "done"]
          /\ UNCHANGED <<leaderSchedules, currentLeaderScheduleId>>
     ELSE MemBegin(p, swimmerList, MemGenerateStartIndex, ParseDate(startDate))
  /\ UNCHANGED <<storageImpl, swimmers, callLog, trainingSessions, currentSessionId, now,
               loop>>

\* a caller invokes setLeaderForDate
MemSetLeaderForDateBegin(p, date, leaderId, leadersArg) ==
  /\ storageImpl = "mem"
  /\ invocations[p].pc = "idle"
  /\ LET leadersList == LeadersList(leadersArg)
     IN  IF findIndex(leadersList, leaderId) = -1
         THEN /\ invocations' = [invocations EXCEPT ![p].pc = "done"]
              /\ leaderSchedules' = RejectedSchedules(leaderSchedules)
              /\ UNCHANGED currentLeaderScheduleId
         ELSE LET sortedLeaders == SortByKey(leadersList, "order")
              IN  MemBegin(p, sortedLeaders,
                           StartIndex(leadersList, sortedLeaders, leaderId), ParseDate(date))
  /\ UNCHANGED <<storageImpl, swimmers, callLog, trainingSessions, currentSessionId, now,
               loop>>

\* a suspended call is resumed after "await this.createLeaderSchedule(...)":
\* it advances its index and date, creates the next window and is suspended
\* again, or returns when that was its last one
MemResume(p) ==
  /\ invocations[p].pc = "running"
  /\ invocations[p].resumed < MaxResumes
  /\ leaderSchedules' = Append(leaderSchedules,
         FrameRecord(invocations[p], invocations[p].created + 1, currentLeaderScheduleId))
  /\ currentLeaderScheduleId' = currentLeaderScheduleId + 1
  /\ invocations' = [invocations EXCEPT
         ![p].created = @ + 1,
         ![p].resumed = @ + 1,
         ![p].pc = IF invocations[p].created + 1 = FrameWindows(invocations[p])
                   THEN "done" ELSE "running"]
  /\ UNCHANGED <<storageImpl, swimmers, callLog, trainingSessions, currentSessionId, now,
               loop>>

\* a suspended call is resumed again and again until it returns, the other
\* caller not running in between
MemRunToReturn(p) ==
  /\ invocations[p].pc = "running"
  /\ LET rest == FrameRest(invocations[p], currentLeaderScheduleId)
     IN  /\ leaderSchedules' = leaderSchedules \o rest
         /\ currentLeaderScheduleId' = currentLeaderScheduleId + Len(rest)
         /\ invocations' = [invocations EXCEPT ![p].created = @ + Len(rest),
                                               ![p].pc = "done"]
  /\ UNCHANGED <<storageImpl, swimmers, callLog, trainingSessions, currentSessionId, now,
               loop>>

InitMem == InitWith(SwimmerTables) /\ storageImpl = "mem"

NextRace ==
  \/ \E p \in Callers, startDate \in StartDates, swimmerList \in SwimmerLists :
       MemGenerateLeaderScheduleBegin(p, startDate, swimmerList)
  \/ \E p \in Callers, date \in StartDates, leaderId \in LeaderIds, leadersArg \in LeaderArgs :
       MemSetLeaderForDateBegin(p, date, leaderId, leadersArg)
  \/ \E p \in Callers : MemResume(p)
  \/ \E p \in Callers : MemRunToReturn(p)

SpecRace == InitMem /\ [][NextRace]_vars

\* the sessions createTrainingSession is called with
InsertSessions ==
  { InsertTrainingSession(title, date, isRecurring, recurringPattern, recurringEndDate,
                          weekdays, maxOccurrences) :
      title \in Titles, date \in TemplateDates, isRecurring \in BOOLEAN,
      recurringPattern \in RecurringPatterns, recurringEndDate \in RecurringEndDates,
      weekdays \in WeekdayLists, maxOccurrences \in MaxOccurrencesArgs }

\* one createTrainingSession call on a fresh storage
InitExpand == InitWith({ {1, 2} })

NextExpand ==
  \/ \E insertSession \in InsertSessions :
       callLog = <<>> /\ MemCreateTrainingSession(insertSession)
  \/ \E insertSession \in InsertSessions :
       callLog = <<>> /\ DbCreateTrainingSession(insertSession)

SpecExpand == InitExpand /\ [][NextExpand]_vars

\* rules with a weekdays list, given in ascending and in descending order,
\* under the pattern that leads each storage to generateWeeklyByWeekdays
WeekdayOrders == { <<"1", "3">>, <<"3", "1">> }

OrderSessions ==
  { InsertTrainingSession(Some("Aerobic"), date, TRUE, Some(recurringPattern),
                          recurringEndDate, Some(weekdays), maxOccurrences) :
      date \in TemplateDates, recurringPattern \in { "weekly", "weekly_by_weekdays" },
      recurringEndDate \in RecurringEndDates, weekdays \in WeekdayOrders,
      maxOccurrences \in MaxOccurrencesArgs }

\* one createTrainingSession call with such a rule on a fresh storage
NextOrder ==
  \/ \E insertSession \in OrderSessions :
       callLog = <<>> /\ MemCreateTrainingSession(insertSession)
  \/ \E insertSession \in OrderSessions :
       callLog = <<>> /\ DbCreateTrainingSession(insertSession)

SpecOrder == InitExpand /\ [][NextOrder]_vars

(***************************************************************************)
(* The loops of MemStorage, one pass at a time                             *)
(***************************************************************************)
\* createTrainingSession stores the session and, for a recurring one, enters
\* generateRecurringSessions
LoopCreateTrainingSession(insertSession) ==
  /\ storageImpl = "mem"
  /\ loop.pc = "idle"
  /\ trainingSessions' = Append(trainingSessions, WithId(insertSession, currentSessionId))
  /\ currentSessionId' = currentSessionId + 1
  /\ loop' = IF /\ insertSession.isRecurring
                /\ OrNull(insertSession.recurringPattern, FalsyText) # None
             THEN [NoLoop EXCEPT !.pc = "expand", !.args = <<insertSession>>,
                                 !.currentDate = ParseDate(insertSession.date)]
             ELSE [NoLoop EXCEPT !.pc = "done"]
  /\ UNCHANGED <<storageImpl, swimmers, leaderSchedules, currentLeaderScheduleId, callLog,
               now, invocations>>

\* mutant: a pattern without a case skips the rest of the pass
PcAfterDefault_continue == "expand"

\* default: return
PcAfterDefault == "done"

\* one test of "while (count < maxOccurrences)" of generateRecurringSessions
\* and the pass through its body that follows
LoopExpandPass ==
  /\ loop.pc = "expand"
  /\ LET baseSession == loop.args[1]
         pattern     == baseSession.recurringPattern[1]
         startDate   == ParseDate(baseSession.date)
         currentDate == NextDate(pattern, loop.currentDate)
     IN  IF ~(loop.count < MaxOccurrences(baseSession))
         THEN /\ loop' = [loop EXCEPT !.pc = "done"]
              /\ UNCHANGED <<trainingSessions, currentSessionId>>
         ELSE IF pattern \notin MemPatterns
         THEN /\ loop' = [loop EXCEPT !.pc = PcAfterDefault]
              /\ UNCHANGED <<trainingSessions, currentSessionId>>
         ELSE IF MemWeeklyUsesWeekdays(baseSession)
         THEN /\ loop' = [loop EXCEPT !.pc = "weekdays", !.count = 0, !.position = 1,
                            !.currentDate = AddDays(startDate, -getDay(startDate))]
              /\ UNCHANGED <<trainingSessions, currentSessionId>>
         ELSE IF AfterEndDate(currentDate, EndDate(baseSession))
         THEN /\ loop' = [loop EXCEPT !.pc = "done", !.currentDate = currentDate]
              /\ UNCHANGED <<trainingSessions, currentSessionId>>
         ELSE /\ trainingSessions' =
                   Append(trainingSessions,
                          MemNewSession(baseSession, currentSessionId, currentDate))
              /\ currentSessionId' = currentSessionId + 1
              /\ loop' = [loop EXCEPT !.currentDate = currentDate, !.count = @ + 1,
                            !.pc = IF currentDate > OneYearFromNow THEN "done" ELSE "expand"]
  /\ UNCHANGED <<storageImpl, swimmers, leaderSchedules, currentLeaderScheduleId, callLog,
               now, invocations>>

\* generateWeeklyByWeekdays: one test of "while (count < maxOccurrences)" at
\* the end of a round of the weekdays, or one pass of "for (const weekday of
\* weekdays)"; currentDate holds currentWeek
LoopWeekdayPass ==
  /\ loop.pc = "weekdays"
  /\ LET baseSession == loop.args[1]
         weekdays    == baseSession.weekdays[1]
         startDate   == ParseDate(baseSession.date)
         sessionDate == AddDays(loop.currentDate, parseInt(weekdays[loop.position]))
     IN  IF ~(loop.count < MaxOccurrences(baseSession))
         THEN /\ loop' = [loop EXCEPT !.pc = "done"]
              /\ UNCHANGED <<trainingSessions, currentSessionId>>
         ELSE IF loop.position > Len(weekdays)
         THEN /\ loop' = [loop EXCEPT !.currentDate = AddDays(@, 7), !.position = 1]
              /\ UNCHANGED <<trainingSessions, currentSessionId>>
         ELSE IF MemSkipsDate(sessionDate, startDate)
         THEN /\ loop' = [loop EXCEPT !.position = @ + 1]
              /\ UNCHANGED <<trainingSessions, currentSessionId>>
         ELSE IF AfterEndDate(sessionDate, EndDate(baseSession))
         THEN /\ loop' = [loop EXCEPT !.pc = "done"]
              /\ UNCHANGED <<trainingSessions, currentSessionId>>
         ELSE /\ trainingSessions' =
                   Append(trainingSessions,
                          MemNewWeekdaySession(baseSession, currentSessionId, sessionDate))
              /\ currentSessionId' = currentSessionId + 1
              /\ loop' = [loop EXCEPT !.count = @ + 1, !.position = @ + 1,
                            !.pc = IF sessionDate > OneYearFromNow THEN "done" ELSE "weekdays"]
  /\ UNCHANGED <<storageImpl, swimmers, leaderSchedules, currentLeaderScheduleId, callLog,
               now, invocations>>

\* generateLeaderSchedule up to its while loop
LoopGenerateLeaderSchedule(startDate, swimmerList) ==
  /\ storageImpl = "mem"
  /\ loop.pc = "idle"
  /\ IF Len(swimmerList) = 0
     THEN /\ loop' = [NoLoop EXCEPT !.pc = "done"]
          /\ UNCHANGED leaderSchedules
     ELSE /\ leaderSchedules' = InvalidateAll(leaderSchedules)
          /\ loop' = [NoLoop EXCEPT !.pc = "rotate", !.args = <<swimmerList>>,
                                    !.position = MemGenerateStartIndex,
                                    !.currentDate = ParseDate(startDate),
                                    !.endOfYear = AddYear(ParseDate(startDate))]
  /\ UNCHANGED <<storageImpl, swimmers, currentLeaderScheduleId, callLog, trainingSessions,
               currentSessionId, now, invocations>>

\* setLeaderForDate up to its while loop
LoopSetLeaderForDate(date, leaderId, leadersArg) ==
  /\ storageImpl = "mem"
  /\ loop.pc = "idle"
  /\ LET leadersList   == LeadersList(leadersArg)
         sortedLeaders == SortByKey(leadersList, "order")
     IN  IF findIndex(leadersList, leaderId) = -1
         THEN /\ loop' = [NoLoop EXCEPT !.pc = "done"]
              /\ leaderSchedules' = RejectedSchedules(leaderSchedules)
         ELSE /\ leaderSchedules' = InvalidateAll(leaderSchedules)
              /\ loop' = [NoLoop EXCEPT
                            !.pc = "rotate", !.args = <<sortedLeaders>>,
                            !.position = StartIndex(leadersList, sortedLeaders, leaderId),
                            !.currentDate = ParseDate(date),
                            !.endOfYear = AddYear(ParseDate(date))]
  /\ UNCHANGED <<storageImpl, swimmers, currentLeaderScheduleId, callLog, trainingSessions,
               currentSessionId, now, invocations>>

\* one test of "while (currentDate < endOfYear)" and the pass that follows
LoopRotatePass ==
  /\ loop.pc = "rotate"
  /\ LET roster == loop.args[1]
     IN  IF ~MemLoopGuard(loop.currentDate, loop.endOfYear)
         THEN /\ loop' = [loop EXCEPT !.pc = "done"]
              /\ UNCHANGED <<leaderSchedules, currentLeaderScheduleId>>
         ELSE /\ leaderSchedules' =
                   Append(leaderSchedules,
                          createLeaderSchedule(currentLeaderScheduleId,
                             WindowInsert(roster[(loop.position % Len(roster)) + 1],
                                          loop.currentDate)))
              /\ currentLeaderScheduleId' = currentLeaderScheduleId + 1
              /\ loop' = [loop EXCEPT !.position = (@ + 1) % Len(roster),
                                      !.currentDate = AddDays(@, PeriodDays)]
  /\ UNCHANGED <<storageImpl, swimmers, callLog, trainingSessions, currentSessionId, now,
               invocations>>

\* the sessions the loops are run for: the recurring ones, with or without a
\* pattern, dated far from and near the day one year from now, with no
\* maxOccurrences, 0, a small and a large one
LoopSessions == { insertSession \in InsertSessions : insertSession.title = Some("Aerobic") /\ insertSession.isRecurring /\ insertSession.date \in { <<2025, 6, 2>>, <<2026, 5, 25>> } /\ insertSession.maxOccurrences # Some(3) }

NextLoop ==
  \/ /\ loop.pc = "idle"
     /\ \E insertSession \in LoopSessions : LoopCreateTrainingSession(insertSession)
  \/ LoopExpandPass
  \/ LoopWeekdayPass
  \/ /\ loop.pc = "idle"
     /\ \E startDate \in StartDates, swimmerList \in SwimmerLists :
          LoopGenerateLeaderSchedule(startDate, swimmerList)
  \/ /\ loop.pc = "idle"
     /\ \E date \in StartDates, leaderId \in LeaderIds, leadersArg \in LeaderArgs :
          LoopSetLeaderForDate(date, leaderId, leadersArg)
  \/ LoopRotatePass

\* a call that can take a step takes one: the loops run to their end
SpecLoop == InitMem /\ [][NextLoop]_vars /\ WF_vars(NextLoop)

(***************************************************************************)
(* Vocabulary of the properties                                            *)
(***************************************************************************)
\* the most recent call
LastCall == callLog[Len(callLog)]

\* the first date a generation covers
HorizonStart(call) == ParseDate(call.date)

\* the last date a generation is to cover: the latest date at which the loop
\* guard lets a window start (endOfYear is excluded by "<", endDate is
\* included by "<=")
HorizonEnd(call) ==
  IF storageImpl = "mem" THEN AddDays(AddYear(ParseDate(call.date)), -1)
  ELSE AddMonths(ParseDate(call.date), 6)

\* the positions of the active stored schedules whose window contains day d
ActiveAt(d) ==
  { i \in 1..Len(leaderSchedules) :
      leaderSchedules[i].isActive /\ Contains(leaderSchedules[i], d) }

\* the positions of the windows of an output sequence that contain day d
WindowsAt(out, d) ==
  { k \in 1..Len(out) : ParseDate(out[k][2]) <= d /\ d <= ParseDate(out[k][3]) }

\* two windows share no day
Disjoint(s1, e1, s2, e2) == ParseDate(e1) < ParseDate(s2) \/ ParseDate(e2) < ParseDate(s1)

\* the index in callLog of the latest call that created a generation, 0 if none
LatestGeneration ==
  LET made == { i \in 1..Len(callLog) : callLog[i].result = "ok" /\ callLog[i].out # <<>> }
  IN  IF made = {} THEN 0 ELSE CHOOSE i \in made : \A j \in made : j <= i

\* the ids of a roster
RosterIds(roster) == { roster[i].id : i \in 1..Len(roster) }

\* the key the storage orders a roster by: the leaders' order, the table's id
RosterKey == IF storageImpl = "mem" THEN "order" ELSE "id"

\* the position (0-based) of the p-th list entry once the roster is ordered by
\* its key, equal keys staying in list order
Rank(roster, p) ==
  Cardinality({ q \in 1..Len(roster) :
                  \/ roster[q][RosterKey] < roster[p][RosterKey]
                  \/ roster[q][RosterKey] = roster[p][RosterKey] /\ q < p })

\* the id of the member at a position of the ordered roster
MemberAtRank(roster, r) ==
  roster[CHOOSE p \in 1..Len(roster) : Rank(roster, p) = r].id

\* how many windows of an output a member holds
WindowsOf(out, id) == Cardinality({ k \in 1..Len(out) : out[k][1] = id })

\* the name the storage in use knows a member id by, null when it knows none
DirectoryName(id) ==
  IF storageImpl = "mem" THEN NameIn(defaultLeaders, id)
  ELSE IF id \in swimmers THEN Swimmer(id).name ELSE Null

\* dates asked of getLeaderForDate
QueryDates ==
  { <<2027, 2, 27>>, <<2027, 2, 28>>, <<2027, 3, 1>>, <<2027, 3, 2>>,
    <<2027, 3, 10>>, <<2028, 2, 29>>, <<2029, 1, 1>> }

\* the id, member and window of every stored schedule
Identities(schedules) ==
  { <<schedules[i].id, schedules[i].swimmerId, schedules[i].startDate,
      schedules[i].endDate>> : i \in 1..Len(schedules) }

Ids(schedules) == { schedules[i].id : i \in 1..Len(schedules) }

ActiveIds(schedules) ==
  { schedules[i].id : i \in { j \in 1..Len(schedules) : schedules[j].isActive } }

InactiveIds(schedules) == Ids(schedules) \ ActiveIds(schedules)

\* the latest call is a createTrainingSession call
ExpandCall == callLog # <<>> /\ LastCall.op = "createTrainingSession"

\* the rule of the latest createTrainingSession call: the session passed in
Rule == LastCall.session

\* the record stored for the session of the latest createTrainingSession call
Template == trainingSessions[LastCall.before + 1]

\* the records the recurrence generation of the latest call added
Occurrences == SubSeq(trainingSessions, LastCall.before + 2, Len(trainingSessions))

\* the day number of the j-th occurrence
OccurrenceDate(j) == ParseDate(Occurrences[j].date)

\* the latest call ran the recurrence generation on a rule with a pattern
Expanded ==
  /\ ExpandCall
  /\ Rule.isRecurring
  /\ Rule.recurringPattern # None

\* the latest call handed its rule to generateWeeklyByWeekdays
WeekdayExpansion ==
  /\ Expanded
  /\ Rule.weekdays # None
  /\ Rule.weekdays # Some(<<>>)
  /\ Rule.recurringPattern[1] = (IF storageImpl = "mem" THEN "weekly" ELSE "weekly_by_weekdays")

\* the patterns that advance by a fixed number of days, with that number
FixedStep == [daily |-> 1, weekly |-> 7, biweekly |-> 14]

\* the day number of the template of the latest call
TemplateDate == ParseDate(Rule.date)

\* a date is within the safety bound: not more than one year from now
WithinSafetyBound(date) == date <= OneYearFromNow

\* the latest call expanded a rule of a fixed-step pattern with a positive
\* maxOccurrences and no endDate whose occurrences all stay within the safety
\* bound
FixedStepRule ==
  /\ Expanded
  /\ Rule.recurringPattern[1] \in DOMAIN FixedStep
  /\ Rule.maxOccurrences # None
  /\ Rule.maxOccurrences[1] >= 1
  /\ Rule.recurringEndDate = None
  /\ WithinSafetyBound(TemplateDate
                         + Rule.maxOccurrences[1] * FixedStep[Rule.recurringPattern[1]])

\* the occurrences are exactly k, the j-th dated j steps after the template
SteppedOccurrences(k, step) ==
  /\ Len(Occurrences) = k
  /\ \A j \in 1..Len(Occurrences) :
       /\ OccurrenceDate(j) = TemplateDate + j * step
       /\ OccurrenceDate(j) # TemplateDate

(***************************************************************************)
(* Properties                                                              *)
(***************************************************************************)

\* C1: after any serialized sequence of generate and setFromDate calls with
\* non-empty rosters, no date is covered by two active assignments, and every
\* date of the latest generation's horizon is covered by exactly one active
\* assignment.
C1_OneActivePerDate ==
  (\A i \in 1..Len(callLog) : callLog[i].roster # <<>>) =>
    /\ \A i, j \in 1..Len(leaderSchedules) :
         (i < j /\ leaderSchedules[i].isActive /\ leaderSchedules[j].isActive) =>
           Disjoint(leaderSchedules[i].startDate, leaderSchedules[i].endDate,
                    leaderSchedules[j].startDate, leaderSchedules[j].endDate)
    /\ LatestGeneration # 0 =>
         \A d \in HorizonStart(callLog[LatestGeneration])
                  ..HorizonEnd(callLog[LatestGeneration]) :
            Cardinality(ActiveAt(d)) = 1

\* C2: the assignments emitted by one generate call (on a roster that is not
\* empty) cover every date from startDate to horizonEnd, horizonEnd included,
\* exactly once, and no two of its windows overlap.
C2_Coverage ==
  (callLog # <<>> /\ LastCall.op = "generate" /\ LastCall.roster # <<>>) =>
    /\ LastCall.result = "ok"
    /\ \A d \in HorizonStart(LastCall)..HorizonEnd(LastCall) :
         Cardinality(WindowsAt(LastCall.out, d)) = 1
    /\ \A k, l \in 1..Len(LastCall.out) :
         k < l => Disjoint(LastCall.out[k][2], LastCall.out[k][3],
                           LastCall.out[l][2], LastCall.out[l][3])

\* a generate call whose last window ends exactly on the last day of its horizon
C2_Witness ==
  /\ callLog # <<>>
  /\ storageImpl = "mem"
  /\ LastCall.op = "generate"
  /\ LastCall.result = "ok"
  /\ Len(LastCall.out) > 1
  /\ ParseDate(LastCall.out[Len(LastCall.out)][3]) = HorizonEnd(LastCall)

\* C3: getLeaderForDate returns null exactly when no active assignment
\* contains the date, and otherwise the name of the member of an active
\* assignment containing it.
C3_Resolve ==
  \A date \in QueryDates :
    \A r \in getLeaderForDate(date) :
      IF ActiveAt(ParseDate(date)) = {} THEN r = Null
      ELSE /\ r # Null
           /\ \E i \in ActiveAt(ParseDate(date)) :
                r = DirectoryName(leaderSchedules[i].swimmerId)

\* C4: setFromDate with a member X of the roster produces a first assignment
\* that starts at the given date with member X, and the k-th assignment after
\* it has the member at position (pos(X) + k) mod n of the ordered roster.
C4_Pivot ==
  (callLog # <<>> /\ LastCall.op = "setFromDate"
     /\ LastCall.leaderId \in RosterIds(LastCall.roster)) =>
    LET roster == LastCall.roster
        out    == LastCall.out
        n      == Len(roster)
        posX   == Rank(roster, CHOOSE p \in 1..n : roster[p].id = LastCall.leaderId)
    IN  /\ LastCall.result = "ok"
        /\ out # <<>>
        /\ out[1][1] = LastCall.leaderId
        /\ out[1][2] = LastCall.date
        /\ \A k \in 0..(Len(out) - 1) :
             out[k + 1][1] = MemberAtRank(roster, (posX + k) % n)

\* a setFromDate call whose pivot is neither first in the list passed nor first
\* in the ordered roster, and whose rotation wrapped around the roster
C4_Witness ==
  /\ callLog # <<>>
  /\ LastCall.op = "setFromDate"
  /\ LastCall.result = "ok"
  /\ LastCall.roster[1].id # LastCall.leaderId
  /\ MemberAtRank(LastCall.roster, 0) # LastCall.leaderId
  /\ Len(LastCall.out) > Len(LastCall.roster)

\* C5: in the output of one generate call for a roster of n distinct members
\* the per-member window counts differ by at most one, and when the call emits
\* exactly k * n windows every member holds exactly k of them.
C5_Fairness ==
  (callLog # <<>> /\ LastCall.op = "generate" /\ LastCall.roster # <<>>) =>
    LET ids == RosterIds(LastCall.roster)
        out == LastCall.out
        n   == Len(LastCall.roster)
    IN  /\ \A a, b \in ids : WindowsOf(out, a) - WindowsOf(out, b) <= 1
        /\ Len(out) % n = 0 => \A a \in ids : WindowsOf(out, a) * n = Len(out)
        /\ \A k \in 1..Len(out) : out[k][1] \in ids

\* a generate call for two members or more that emitted a multiple of n windows
C5_Witness ==
  /\ callLog # <<>>
  /\ LastCall.op = "generate"
  /\ Len(LastCall.roster) >= 2
  /\ LastCall.out # <<>>
  /\ Len(LastCall.out) % Len(LastCall.roster) = 0

\* C6: two calls with the same roster, date and pivot emit the same sequence
\* of (memberId, startDate, endDate), whatever the storage held when each of
\* them started.
C6_Determinism ==
  \A i, j \in 1..Len(callLog) :
    ( /\ i < j
      /\ callLog[i].op = callLog[j].op
      /\ callLog[i].date = callLog[j].date
      /\ callLog[i].roster = callLog[j].roster
      /\ callLog[i].leaderId = callLog[j].leaderId )
    => /\ callLog[i].out = callLog[j].out
       /\ callLog[i].result = callLog[j].result

\* two generate calls with the same inputs, the second one started on a
\* storage that already held the first one's assignments
C6_Witness ==
  \E i, j \in 1..Len(callLog) :
    /\ i < j
    /\ callLog[i].op = "generate"
    /\ callLog[j].op = "generate"
    /\ callLog[i].date = callLog[j].date
    /\ callLog[i].roster = callLog[j].roster
    /\ callLog[i].out # <<>>
    /\ callLog[j].firstId > callLog[i].firstId

\* C7: generate with an empty roster signals an error, creates no assignment
\* and neither deactivates nor removes an existing one.
C7_EmptyRosterNoOp ==
  [][ ( /\ Len(callLog') = Len(callLog) + 1
        /\ callLog'[Len(callLog')].op = "generate"
        /\ callLog'[Len(callLog')].roster = <<>> )
      => /\ leaderSchedules' = leaderSchedules
         /\ callLog'[Len(callLog')].result = "error" ]_vars

\* C8: setFromDate with a chosenMemberId that is not in the roster raises an
\* error and leaves every stored assignment as it was.
C8_UnknownMemberNoOp ==
  [][ ( /\ Len(callLog') = Len(callLog) + 1
        /\ callLog'[Len(callLog')].op = "setFromDate"
        /\ callLog'[Len(callLog')].leaderId \notin RosterIds(callLog'[Len(callLog')].roster) )
      => /\ callLog'[Len(callLog')].result = "error"
         /\ leaderSchedules' = leaderSchedules ]_vars

\* a rejected setFromDate call on a storage that holds active assignments
C8_Witness ==
  /\ callLog # <<>>
  /\ LastCall.op = "setFromDate"
  /\ LastCall.result = "error"
  /\ LastCall.leaderId \notin RosterIds(LastCall.roster)
  /\ ActiveIds(leaderSchedules) # {}

\* C9: generate and setFromDate never remove an assignment record: every
\* stored record is still stored after the call, with the same member and
\* the same window.
C9_HistoryPreserved ==
  [][ Identities(leaderSchedules) \subseteq Identities(leaderSchedules') ]_vars

\* C10: every assignment is active when it is created, and no assignment goes
\* from inactive back to active.
C10_NoReactivation ==
  [][ /\ (Ids(leaderSchedules') \ Ids(leaderSchedules)) \subseteq ActiveIds(leaderSchedules')
      /\ InactiveIds(leaderSchedules) \cap ActiveIds(leaderSchedules') = {} ]_vars

\* three generations were created and an assignment of an earlier one is
\* stored as superseded
C10_Witness ==
  /\ Cardinality({ i \in 1..Len(callLog) : callLog[i].out # <<>> }) >= 3
  /\ InactiveIds(leaderSchedules) # {}

\* C11: no assignment emitted by generate or setFromDate ends later than
\* horizonEnd, and the last assignment of a generation ends exactly at
\* horizonEnd (the final window is cut there instead of running past it).
C11_Truncation ==
  (callLog # <<>> /\ LastCall.result = "ok" /\ LastCall.out # <<>>) =>
    /\ \A k \in 1..Len(LastCall.out) :
         ParseDate(LastCall.out[k][3]) <= HorizonEnd(LastCall)
    /\ ParseDate(LastCall.out[Len(LastCall.out)][3]) = HorizonEnd(LastCall)

\* C12: every occurrence record created by the recurrence generation of
\* createTrainingSession has isRecurring = false and recurringPattern = null,
\* whatever the pattern.
C12_OccurrenceShape ==
  ExpandCall =>
    \A j \in 1..Len(Occurrences) :
      /\ Occurrences[j].isRecurring = FALSE
      /\ Occurrences[j].recurringPattern = None

\* a recurring template was expanded into several occurrences by the stepping
\* loop of MemStorage
C12_Witness ==
  /\ Expanded
  /\ storageImpl = "mem"
  /\ Rule.recurringPattern = Some("biweekly")
  /\ Template.isRecurring
  /\ Len(Occurrences) >= 2

\* C13: for every non-negative maxOccurrences supplied, 0 included, and every
\* endDate, the recurrence generation creates at most maxOccurrences
\* occurrences and no occurrence dated after endDate.
C13_Bounding ==
  ExpandCall =>
    /\ Rule.maxOccurrences # None => Len(Occurrences) <= Rule.maxOccurrences[1]
    /\ Rule.recurringEndDate # None =>
         \A j \in 1..Len(Occurrences) :
           OccurrenceDate(j) <= ParseDate(Rule.recurringEndDate[1])

C15_WeeklyByWeekdays ==
  ( /\ Expanded
    /\ Rule.recurringPattern = Some("weekly_by_weekdays")
    /\ Rule.weekdays # None
    /\ Rule.weekdays # Some(<<>>)
    /\ Rule.maxOccurrences # None
    /\ Rule.maxOccurrences[1] >= 1
    /\ Rule.recurringEndDate = None
    /\ WithinSafetyBound(TemplateDate + 7 * Rule.maxOccurrences[1]) ) =>
    /\ Len(Occurrences) = Rule.maxOccurrences[1]
    /\ \A j \in 1..Len(Occurrences) :
         /\ getDay(OccurrenceDate(j)) \in
              { parseInt(Rule.weekdays[1][i]) : i \in 1..Len(Rule.weekdays[1]) }
         /\ OccurrenceDate(j) # TemplateDate
    /\ ( /\ getDay(TemplateDate) = 1
         /\ Rule.weekdays = Some(<<"1", "3">>)
         /\ Rule.maxOccurrences = Some(2) ) =>
         [j \in 1..Len(Occurrences) |-> OccurrenceDate(j)]
           = <<TemplateDate + 2, TemplateDate + 7>>

\* C16: for pattern monthly each occurrence is one calendar month after the
\* previous one (the first after the template) on the same day of month, or on
\* the last day of that month when the month is shorter.
C16_MonthlyClamped ==
  LET DaysInMonth(y, m) ==
        DaysFromCivil(IF m = 12 THEN y + 1 ELSE y, IF m = 12 THEN 1 ELSE m + 1, 1)
          - DaysFromCivil(y, m, 1)
      MonthAfter(t) ==
        LET c == CivilFromDays(t)
            y == IF c[2] = 12 THEN c[1] + 1 ELSE c[1]
            m == IF c[2] = 12 THEN 1 ELSE c[2] + 1
            d == IF c[3] <= DaysInMonth(y, m) THEN c[3] ELSE DaysInMonth(y, m)
        IN  DaysFromCivil(y, m, d)
  IN  (Expanded /\ Rule.recurringPattern = Some("monthly")) =>
        \A j \in 1..Len(Occurrences) :
          OccurrenceDate(j) =
            MonthAfter(IF j = 1 THEN TemplateDate ELSE OccurrenceDate(j - 1))

\* C17: with a recurrence pattern that is not one of the recognized ones the
\* recurrence generation creates no occurrence and raises nothing:
\* createTrainingSession stores and returns the one template session, and
\* storage holds exactly one record more than before.
C17_UnrecognizedPattern ==
  ( /\ ExpandCall
    /\ Rule.recurringPattern # None
    /\ Rule.recurringPattern[1] \notin RecognizedPatterns ) =>
    /\ LastCall.result = "ok"
    /\ Occurrences = <<>>
    /\ Len(trainingSessions) = LastCall.before + 1
    /\ LastCall.returned = Template
    /\ Template.date = Rule.date

\* a recurring session with the pattern "yearly" was created
C17_Witness ==
  /\ ExpandCall
  /\ Rule.isRecurring
  /\ Rule.recurringPattern = Some("yearly")
  /\ Len(trainingSessions) = LastCall.before + 1

\* C18: every occurrence created by the recurrence generation carries the
\* template's non-recurrence fields unchanged, only the date replaced (an
\* empty title counting as no title), and has recurringPattern,
\* recurringEndDate, weekdays and maxOccurrences all null or empty.
C18_OccurrenceCopy ==
  ExpandCall =>
    \A j \in 1..Len(Occurrences) :
      /\ \A f \in { "type", "startTime", "endTime", "strokes", "distance", "intensity",
                     "lanes", "menuDetails", "coachNotes" } :
           Occurrences[j][f] = Template[f]
      /\ \/ Occurrences[j].title = Template.title
         \/ { Occurrences[j].title, Template.title } \subseteq { None, Some("") }
      /\ Occurrences[j].recurringPattern = None
      /\ Occurrences[j].recurringEndDate = None
      /\ Occurrences[j].weekdays \in { None, Some(<<>>) }
      /\ Occurrences[j].maxOccurrences = None

\* C19: when the rule gives neither endDate nor maxOccurrences the recurrence
\* generation creates at most 50 occurrences, for every recognized pattern.
C19_DefaultCap ==
  ( /\ Expanded
    /\ Rule.recurringPattern[1] \in RecognizedPatterns
    /\ Rule.recurringEndDate = None
    /\ Rule.maxOccurrences = None ) =>
    Len(Occurrences) <= 50

\* a rule without endDate and maxOccurrences was expanded into 50 occurrences
C19_Witness ==
  /\ Expanded
  /\ Rule.recurringPattern[1] \in RecognizedPatterns
  /\ Rule.recurringEndDate = None
  /\ Rule.maxOccurrences = None
  /\ Len(Occurrences) = 50

\* C20: for any supplied maxOccurrences and no endDate the recurrence
\* generation stops once a date exceeds one year from now: no occurrence is
\* created after the first one dated beyond that bound, whatever
\* maxOccurrences is.
C20_SafetyBound ==
  ( /\ Expanded
    /\ Rule.recurringPattern[1] \in RecognizedPatterns
    /\ Rule.recurringEndDate = None
    /\ Rule.maxOccurrences # None ) =>
    \A j \in 1..Len(Occurrences) :
      j < Len(Occurrences) => WithinSafetyBound(OccurrenceDate(j))

\* C21: setFromDate with a valid member deactivates every assignment that was
\* active before the call, whatever its dates: afterwards the active
\* assignments are exactly the ones this call created.
C21_FullReset ==
  [][ ( /\ Len(callLog') = Len(callLog) + 1
        /\ callLog'[Len(callLog')].op = "setFromDate"
        /\ callLog'[Len(callLog')].result = "ok" )
      => /\ ActiveIds(leaderSchedules) \cap ActiveIds(leaderSchedules') = {}
         /\ ActiveIds(leaderSchedules') =
              { callLog'[Len(callLog')].firstId + k - 1 :
                  k \in 1..Len(callLog'[Len(callLog')].out) } ]_vars

\* C22: the rotation follows the roster sorted by order ascending, ties
\* broken by id ascending, whatever order the list was passed in: generate
\* starts at the head of that order, setFromDate at the chosen member, and
\* each further window goes to the next member of that order, so that of two
\* members with equal order the one with the smaller id comes first.
C22_TieBreakById ==
  (callLog # <<>> /\ LastCall.result = "ok" /\ LastCall.out # <<>>) =>
    LET roster == LastCall.roster
        out    == LastCall.out
        n      == Len(roster)
        RankByOrderThenId(p) ==
          Cardinality({ q \in 1..n :
                          \/ roster[q].order < roster[p].order
                          \/ /\ roster[q].order = roster[p].order
                             /\ roster[q].id < roster[p].id })
        first  == IF LastCall.op = "generate" THEN 0
                  ELSE RankByOrderThenId(CHOOSE p \in 1..n : roster[p].id = LastCall.leaderId)
    IN  \A k \in 0..(Len(out) - 1) :
          \E p \in 1..n : /\ RankByOrderThenId(p) = (first + k) % n
                          /\ out[k + 1][1] = roster[p].id

\* C23: within one generation every assignment starts on the day after the
\* previous assignment's endDate, and every assignment other than the last
\* spans exactly 3 days (endDate = startDate + 2 days).
C23_Contiguous ==
  \A i \in 1..Len(callLog) :
    callLog[i].op \in {"generate", "setFromDate"} =>
      LET out == callLog[i].out
      IN  /\ \A k \in 2..Len(out) :
               ParseDate(out[k][2]) = ParseDate(out[k - 1][3]) + 1
          /\ \A k \in 1..(Len(out) - 1) :
               ParseDate(out[k][3]) = ParseDate(out[k][2]) + 3 - 1

\* a generation of more than a hundred windows, one of which starts in one
\* year and ends in the next
C23_Witness ==
  /\ callLog # <<>>
  /\ LastCall.op \in {"generate", "setFromDate"}
  /\ Len(LastCall.out) > 100
  /\ \E k \in 1..Len(LastCall.out) : LastCall.out[k][2][1] < LastCall.out[k][3][1]

\* C24: generate marks inactive every active assignment whose startDate is on
\* or after the new startDate, and an active assignment whose window ends
\* before the new startDate stays active.
C24_DeactivationScope ==
  [][ ( /\ Len(callLog') = Len(callLog) + 1
        /\ callLog'[Len(callLog')].op = "generate"
        /\ callLog'[Len(callLog')].roster # <<>> )
      => \A i \in 1..Len(leaderSchedules) :
           leaderSchedules[i].isActive =>
             /\ DateLeq(callLog'[Len(callLog')].date, leaderSchedules[i].startDate)
                  => leaderSchedules[i].id \notin ActiveIds(leaderSchedules')
             /\ ( /\ DateLeq(leaderSchedules[i].endDate, callLog'[Len(callLog')].date)
                  /\ leaderSchedules[i].endDate # callLog'[Len(callLog')].date )
                  => leaderSchedules[i].id \in ActiveIds(leaderSchedules') ]_vars

\* C25: with no serialization, when a generate / setFromDate call begins while
\* another one is suspended at an await, the two calls end with two active
\* assignments covering the same date.
C25_RaceOverlap ==
  ( /\ \A p \in Callers : invocations[p].pc = "done"
    /\ \E p \in Callers : invocations[p].raced )
  => \E i, j \in 1..Len(leaderSchedules) :
       /\ i < j
       /\ leaderSchedules[i].isActive
       /\ leaderSchedules[j].isActive
       /\ ~Disjoint(leaderSchedules[i].startDate, leaderSchedules[i].endDate,
                    leaderSchedules[j].startDate, leaderSchedules[j].endDate)

\* both calls were resumed window by window in turn, both have returned, and
\* some date is covered by two active assignments
C25_Witness ==
  /\ \A p \in Callers : invocations[p].pc = "done" /\ invocations[p].resumed > 0
  /\ \E p \in Callers : invocations[p].raced
  /\ \E i \in 1..Len(leaderSchedules) :
       /\ leaderSchedules[i].isActive
       /\ Cardinality(ActiveAt(ParseDate(leaderSchedules[i].startDate))) >= 2

\* C26: the recurrence expansion run by createTrainingSession ends for every
\* pattern (recognized or not), every weekdays list (absent, empty or not) and
\* every combination of maxOccurrences and endDate, and generate and
\* setFromDate end for every roster: every call returns or throws.
C26_Termination == <>(loop.pc = "done")

\* a call has returned after fifty passes of a loop or more
C26_Witness ==
  /\ loop.pc = "done"
  /\ \/ loop.count >= 50
     \/ Len(leaderSchedules) >= 50

\* C27: the occurrences of a weekly_by_weekdays expansion have strictly
\* increasing dates in creation order and are the chronologically earliest
\* designated-weekday dates after the template date, whatever order the
\* weekdays list is given in: every occurrence is on a weekday of the list
\* after the template date, and no such date before the last occurrence is
\* left out.
C27_WeekdayOrder ==
  WeekdayExpansion =>
    LET designated == { parseInt(Rule.weekdays[1][i]) : i \in 1..Len(Rule.weekdays[1]) }
        dates      == { OccurrenceDate(j) : j \in 1..Len(Occurrences) }
    IN  /\ \A j \in 1..(Len(Occurrences) - 1) : OccurrenceDate(j) < OccurrenceDate(j + 1)
        /\ \A d \in dates : d > TemplateDate /\ getDay(d) \in designated
        /\ \A d \in dates :
             \A e \in (TemplateDate + 1)..d : getDay(e) \in designated => e \in dates

\* C28: for a fixed-step pattern (daily, weekly, biweekly) with both endDate
\* and maxOccurrences given, inside the safety bound, the number of
\* occurrences created is the smaller of maxOccurrences and the number of step
\* dates after the template date that are on or before endDate, and a step
\* date that falls exactly on endDate within that number is created.
C28_EndDateAndCap ==
  ( /\ Expanded
    /\ Rule.recurringPattern[1] \in DOMAIN FixedStep
    /\ Rule.maxOccurrences # None
    /\ Rule.recurringEndDate # None ) =>
    LET step     == FixedStep[Rule.recurringPattern[1]]
        endDate  == ParseDate(Rule.recurringEndDate[1])
        inRange  == { j \in 1..Rule.maxOccurrences[1] : TemplateDate + j * step <= endDate }
    IN  WithinSafetyBound(TemplateDate + Cardinality(inRange) * step) =>
          /\ Len(Occurrences) = Cardinality(inRange)
          /\ \A j \in inRange :
               TemplateDate + j * step = endDate =>
                 \E i \in 1..Len(Occurrences) : OccurrenceDate(i) = endDate

\* C29: across createTrainingSession (template and generated occurrences),
\* deleteTrainingSession, generate and setFromDate calls, ids are unique and
\* never reused.  In every step, for the training sessions and for the
\* leader-schedule records alike: the stored ids are pairwise distinct, a
\* stored record either keeps the id of a record stored before the step or has
\* an id the counter had not yet handed out before the step, and the counter
\* never goes back, so an id freed by a deletion is never handed out again.
C29_IdsNeverReused ==
  [][ /\ currentSessionId' >= currentSessionId
      /\ currentLeaderScheduleId' >= currentLeaderScheduleId
      /\ \A i, j \in 1..Len(trainingSessions') :
           trainingSessions'[i].id = trainingSessions'[j].id => i = j
      /\ \A i, j \in 1..Len(leaderSchedules') :
           leaderSchedules'[i].id = leaderSchedules'[j].id => i = j
      /\ \A i \in 1..Len(trainingSessions') :
           LET id == trainingSessions'[i].id
           IN  IF id < currentSessionId
               THEN \E k \in 1..Len(trainingSessions) : trainingSessions[k].id = id
               ELSE id < currentSessionId'
      /\ \A i \in 1..Len(leaderSchedules') :
           LET id == leaderSchedules'[i].id
           IN  IF id < currentLeaderScheduleId
               THEN \E k \in 1..Len(leaderSchedules) : leaderSchedules[k].id = id
               ELSE id < currentLeaderScheduleId'
    ]_vars

\* the newest session was deleted and a series was created afterwards: its
\* template and occurrences all have ids above the deleted one
C29_Witness ==
  \E i, j \in 1..Len(callLog) :
    /\ i < j
    /\ callLog[i].op = "deleteTrainingSession"
    /\ callLog[i].result
    /\ callLog[j].op = "createTrainingSession"
    /\ callLog[j].session.isRecurring
    /\ callLog[j].returned.id > callLog[i].id
    /\ Len(trainingSessions) >= 3
    /\ \A k \in 1..Len(trainingSessions) : trainingSessions[k].id # callLog[i].id

\* C30: deleteFutureTrainingSessions(id) on a stored session removes exactly
\* the sessions dated on or after the target's date whose title and type equal
\* the target's (the target included) and leaves every other session as it
\* was; for an id that is not stored it returns false and changes nothing.
C30_DeleteFuture ==
  [][ ( /\ Len(callLog') = Len(callLog) + 1
        /\ callLog'[Len(callLog')].op = "deleteFutureTrainingSessions" )
      => LET call    == callLog'[Len(callLog')]
             targets == { i \in 1..Len(trainingSessions) :
                            trainingSessions[i].id = call.id }
         IN  IF targets = {}
             THEN /\ call.result = FALSE
                  /\ UNCHANGED <<trainingSessions, currentSessionId, leaderSchedules,
                                 currentLeaderScheduleId, swimmers>>
             ELSE LET target == trainingSessions[CHOOSE i \in targets : TRUE]
                      removed(session) ==
                        /\ ParseDate(session.date) >= ParseDate(target.date)
                        /\ session.title = target.title
                        /\ session.type = target.type
                  IN  /\ removed(target)
                      /\ \A i \in 1..Len(trainingSessions) :
                           IF removed(trainingSessions[i])
                           THEN \A j \in 1..Len(trainingSessions') :
                                  trainingSessions'[j].id # trainingSessions[i].id
                           ELSE \E j \in 1..Len(trainingSessions') :
                                  trainingSessions'[j] = trainingSessions[i]
                      /\ \A j \in 1..Len(trainingSessions') :
                           \E i \in 1..Len(trainingSessions) :
                             trainingSessions[i] = trainingSessions'[j]
    ]_vars

\* the last call removed a session and a later one of its series, and left an
\* earlier session of the series and a session of the same title and another
\* type that is not dated before the target
C30_Witness ==
  /\ callLog # <<>>
  /\ LET call == callLog[Len(callLog)]
     IN  /\ call.op = "deleteFutureTrainingSessions"
         /\ call.result
         /\ Cardinality(call.deleted) >= 2
         /\ \E i, j \in 1..Len(trainingSessions) :
              /\ ParseDate(trainingSessions[i].date) < ParseDate(call.target[1].date)
              /\ trainingSessions[i].title = call.target[1].title
              /\ trainingSessions[i].type = call.target[1].type
              /\ ParseDate(trainingSessions[j].date) >= ParseDate(call.target[1].date)
              /\ trainingSessions[j].title = call.target[1].title
              /\ trainingSessions[j].type # call.target[1].type

====
